---- MODULE Spec2Model ----
(***************************************************************************)
(* Model of dm-data-schema-randomizer (src/main.py): a command-line        *)
(* pipeline  validate_input -> read_csv -> randomize_column_names ->       *)
(* reorder_columns -> change_data_types -> to_csv  over one in-memory      *)
(* table, driven by the process-wide generator of Python's random module.  *)
(*                                                                         *)
(* A table (DataFrame) is [nrows, cols]; a column is                       *)
(* [name, dtype, data, src]: src is the position the column had in the     *)
(* loaded file (the identity of the underlying Series).  A cell is         *)
(* [k, s, v]: kind, "is the text form of that value", and the number       *)
(* (floats in tenths).  A column name is [kind, idx]: the idx-th header    *)
(* of the input file ("orig") or the label column_<idx> ("column").        *)
(*                                                                         *)
(* The Mersenne Twister is abstracted to a deterministic generator over    *)
(* 0..RngMod-1: what the code relies on is only that seed() fixes the      *)
(* state and that every draw is a function of the state.                   *)
(***************************************************************************)
EXTENDS Integers, Sequences, FiniteSets, TLC

\* ------------------------------------------------------------ bounds
MaxCols == 3
MaxRows == 2
RngMod == 11
MaxStages == 3

VARIABLES
    pc,           \* position of main(): parse_args, validate, read, rename, reorder, types, write, exited
    args,         \* the parsed command line: [ok, input_file, seed]
    rng,          \* state of the shared generator of the random module
    loaded,       \* the table read_csv returned (kept for reference), NoTable before
    df,           \* the local df of main()
    log,          \* records emitted through logging, in order
    steps,        \* the calls of main() that returned normally, in order
    output_file,  \* <<>> while nothing was written, else <<what to_csv wrote>>
    possible_types, \* per column, the list possible_types the last change_data_types drew from
    exit_status   \* status of the process once pc = "exited"

vars == <<pc, args, rng, loaded, df, log, steps, output_file, possible_types, exit_status>>

\* ------------------------------------------------------- small helpers
Abs(x) == IF x < 0 THEN -x ELSE x

Range(f) == {f[i] : i \in DOMAIN f}

NoName == [kind |-> "none", idx |-> 0]

OrigName(i) == [kind |-> "orig", idx |-> i]

\* f"column_{i}"
ColumnLabel(i) == [kind |-> "column", idx |-> i]

NoTable == [nrows |-> 0, cols |-> <<>>]

\* --------------------------------------------------- the random module
RngStates == 0 .. (RngMod - 1)

\* random.seed(a) for an int a: the state is a function of abs(a)
SeedState(a) == (Abs(a) * 7 + 1) % RngMod

\* one draw of _randbelow(n): a value in 0..n-1 and the state after it
Randbelow(g, n) == [val |-> g % n, rng |-> (g * 5 + 3) % RngMod]

Swap(x, i, j) == [x EXCEPT ![i] = x[j], ![j] = x[i]]

\* random.shuffle(x): for i in reversed(range(1, len(x))): j = randbelow(i + 1);
\* x[i], x[j] = x[j], x[i]   (positions here are 1-based)
RECURSIVE ShuffleFrom(_, _, _)
ShuffleFrom(x, i, g) ==
    IF i < 2 THEN [list |-> x, rng |-> g]
    ELSE LET d == Randbelow(g, i)
         IN  ShuffleFrom(Swap(x, i, d.val + 1), i - 1, d.rng)

shuffle(x, g) == ShuffleFrom(x, Len(x), g)

\* random.choice(seq): seq[_randbelow(len(seq))]
choice(seq, g) ==
    LET d == Randbelow(g, Len(seq))
    IN  [val |-> seq[d.val + 1], rng |-> d.rng]

\* "if seed: random.seed(seed)": None and 0 are both falsy
Reseed(seed, g) == IF seed.given /\ seed.val # 0 THEN SeedState(seed.val) ELSE g

\* ------------------------------------------------------------- cells
IntCell(n) == [k |-> "int", s |-> FALSE, v |-> n]
FloatCell(t) == [k |-> "float", s |-> FALSE, v |-> t]
NaNCell == [k |-> "nan", s |-> FALSE, v |-> 0]
BoolCell(b) == [k |-> "bool", s |-> FALSE, v |-> b]
WordCell == [k |-> "word", s |-> TRUE, v |-> 0]
TextOf(c) == [c EXCEPT !.s = TRUE]

\* pd.to_numeric(..., errors='coerce') on one cell: numbers stay, text that is a
\* numeric literal is parsed ("nan" and "inf" are literals), other text becomes NaN
to_numeric(c) ==
    IF ~c.s THEN c
    ELSE IF c.k \in {"int", "float", "nan", "inf"} THEN [c EXCEPT !.s = FALSE]
    ELSE NaNCell

\* .fillna(0) / .fillna(0.0)
fillna(c, zero) == IF c.k = "nan" THEN zero ELSE c

\* .astype(np.int64) raises on a non-finite value
IsFinite(c) == c.k \notin {"nan", "inf"}

AsInt64(c) == IF c.k = "float" THEN IntCell(c.v \div 10) ELSE IntCell(c.v)

AsFloat64(c) == IF c.k \in {"int", "bool"} THEN FloatCell(c.v * 10) ELSE c

\* .astype(str): the default text form of each value; text stays as it is
AsStr(c) == TextOf(c)

\* ----------------------------------------------------------- columns
Names(d) == [i \in DOMAIN d.cols |-> d.cols[i].name]

\* len(df)
RowCount(d) == d.nrows

\* df.rename(columns=dict(zip(df.columns, new_names))): the dict keeps, for a key
\* given twice, the last value; every column is relabelled through the dict
rename(d, new_names) ==
    LET last(nm) == CHOOSE i \in DOMAIN d.cols :
                        /\ d.cols[i].name = nm
                        /\ \A j \in DOMAIN d.cols : d.cols[j].name = nm => j <= i
    IN  [d EXCEPT !.cols = [i \in DOMAIN d.cols |->
            [d.cols[i] EXCEPT !.name = new_names[last(d.cols[i].name)]]]]

\* df[columns]: for each label of the list in turn, every column bearing that label
RECURSIVE SelectCols(_, _)
SelectCols(cols, labels) ==
    IF labels = <<>> THEN <<>>
    ELSE SelectSeq(cols, LAMBDA c : c.name = Head(labels))
         \o SelectCols(cols, Tail(labels))

getitem(d, labels) == [d EXCEPT !.cols = SelectCols(d.cols, labels)]

\* ------------------------------------------------------------- stages
\* mutant: the labels are drawn with random.choices (with replacement) instead of
\* being shuffled
randomize_column_names_choices(d, seed, g) ==
    LET g1 == Reseed(seed, g)
        n == Len(d.cols)
        new_names == [i \in 1 .. n |-> ColumnLabel(Randbelow((g1 + i) % RngMod, n).val)]
    IN  [df |-> rename(d, new_names), rng |-> Randbelow(g1, n).rng]

randomize_column_names(d, seed, g) ==
    LET g1 == Reseed(seed, g)
        new_names == [i \in 1 .. Len(d.cols) |-> ColumnLabel(i - 1)]
        sh == shuffle(new_names, g1)
    IN  [df |-> rename(d, sh.list), rng |-> sh.rng]

\* mutant: the column list is drawn with random.choices (with replacement)
reorder_columns_choices(d, seed, g) ==
    LET g1 == Reseed(seed, g)
        n == Len(d.cols)
        names == Names(d)
        picked == [i \in 1 .. n |-> names[Randbelow((g1 + i) % RngMod, n).val + 1]]
    IN  [df |-> getitem(d, picked), rng |-> Randbelow(g1, n).rng]

\* mutant: the reordering stage forgets to reseed
reorder_columns_no_reseed(d, seed, g) ==
    LET sh == shuffle(Names(d), g)
    IN  [df |-> getitem(d, sh.list), rng |-> sh.rng]

reorder_columns(d, seed, g) ==
    LET g1 == Reseed(seed, g)
        sh == shuffle(Names(d), g1)
    IN  [df |-> getitem(d, sh.list), rng |-> sh.rng]

\* ---------------------------------------------------- change_data_types
\* a log record; to is the target type a per-column message names ("" otherwise)
Entry(level, msg, col, to) == [level |-> level, msg |-> msg, col |-> col, to |-> to]

\* possible_types = [np.int64, np.float64, 'string', 'category']
AllTypes == <<"np.int64", "np.float64", "string", "category">>

\* numeric_types = [np.int64, np.float64]
numeric_types == <<"np.int64", "np.float64">>

\* "dtype == t" as numpy and pandas decide it: dtype('int64') == np.int64,
\* dtype('float64') == np.float64, CategoricalDtype == 'category'; dtype('O') and
\* dtype('bool') equal none of the four entries ('string' names no numpy dtype)
DtypeEq(dtype, t) ==
    \/ dtype = "int64" /\ t = "np.int64"
    \/ dtype = "float64" /\ t = "np.float64"
    \/ dtype = "category" /\ t = "category"

\* original_type in numeric_types
IsNumeric(dtype) == \E i \in DOMAIN numeric_types : DtypeEq(dtype, numeric_types[i])

\* possible_types.remove(original_type), the ValueError of a missing entry ignored
RemoveFirst(seq, dtype) ==
    IF \E i \in DOMAIN seq : DtypeEq(dtype, seq[i])
    THEN LET p == CHOOSE i \in DOMAIN seq :
                      /\ DtypeEq(dtype, seq[i])
                      /\ \A j \in DOMAIN seq : DtypeEq(dtype, seq[j]) => i <= j
         IN  [i \in 1 .. (Len(seq) - 1) |-> IF i < p THEN seq[i] ELSE seq[i + 1]]
    ELSE seq

\* mutant: the filter of line 82 is missing, so a numeric column loses only its own type
CandidateTypesKeepNumeric(dtype) ==
    LET p2 == IF dtype = "object"
              THEN SelectSeq(AllTypes, LAMBDA t : t # "category")
              ELSE AllTypes
    IN  RemoveFirst(p2, dtype)

\* lines 76-92: the candidate targets of a column of the given dtype
CandidateTypes(dtype) ==
    LET p1 == IF IsNumeric(dtype)
              THEN SelectSeq(AllTypes, LAMBDA t : t \notin Range(numeric_types))
              ELSE AllTypes
        p2 == IF dtype = "object"
              THEN SelectSeq(p1, LAMBDA t : t # "category")
              ELSE p1
    IN  RemoveFirst(p2, dtype)

\* the Series operations of lines 102-106, cell by cell
ParseFill(data, zero) == [i \in DOMAIN data |-> fillna(to_numeric(data[i]), zero)]

Int64Series(data) == [i \in DOMAIN data |-> AsInt64(data[i])]

Float64Series(data) == [i \in DOMAIN data |-> AsFloat64(data[i])]

StrSeries(data) == [i \in DOMAIN data |-> AsStr(data[i])]

\* mutant: unparsable values are dropped (dropna) instead of replaced (fillna)
ConvertDropna(col, new_type) ==
    IF new_type \in {"np.int64", "np.float64"}
    THEN LET parsed == [i \in DOMAIN col.data |-> to_numeric(col.data[i])]
             kept == SelectSeq(parsed, LAMBDA c : c.k # "nan")
         IN  IF \A i \in DOMAIN kept : IsFinite(kept[i])
             THEN [ok |-> TRUE,
                   col |-> [col EXCEPT !.dtype = IF new_type = "np.int64" THEN "int64" ELSE "float64",
                                       !.data = IF new_type = "np.int64" THEN Int64Series(kept)
                                               ELSE Float64Series(kept)]]
             ELSE [ok |-> FALSE, col |-> col]
    ELSE IF new_type = "string"
    THEN [ok |-> TRUE,
          col |-> [col EXCEPT !.dtype = "object", !.data = StrSeries(col.data)]]
    ELSE [ok |-> TRUE, col |-> [col EXCEPT !.dtype = "category"]]

\* lines 101-108: the right-hand side of "df[col] = ..."; ok = FALSE when it raises
Convert(col, new_type) ==
    IF new_type = "np.int64"
    THEN LET filled == ParseFill(col.data, IntCell(0))
         IN  IF \A i \in DOMAIN filled : IsFinite(filled[i])
             THEN [ok |-> TRUE,
                   col |-> [col EXCEPT !.dtype = "int64", !.data = Int64Series(filled)]]
             ELSE [ok |-> FALSE, col |-> col]
    ELSE IF new_type = "np.float64"
    THEN LET filled == ParseFill(col.data, FloatCell(0))
         IN  [ok |-> TRUE,
              col |-> [col EXCEPT !.dtype = "float64", !.data = Float64Series(filled)]]
    ELSE IF new_type = "string"
    THEN [ok |-> TRUE,
          col |-> [col EXCEPT !.dtype = "object", !.data = StrSeries(col.data)]]
    ELSE [ok |-> TRUE, col |-> [col EXCEPT !.dtype = "category"]]

\* mutant: the column is assigned the parsed numbers before astype raises
ConvertColumnAssignsEarly(st, i) ==
    LET col == st.df.cols[i]
        original_type == col.dtype
        ptypes == CandidateTypes(original_type)
    IN  IF ptypes = <<>>
        THEN [st EXCEPT !.log = Append(@, Entry("WARNING", "no valid conversion types", col.name, "")),
                        !.possible = Append(@, ptypes)]
        ELSE LET pick == choice(ptypes, st.rng)
                 conv == Convert(col, pick.val)
             IN  IF conv.ok
                 THEN [df |-> [st.df EXCEPT !.cols[i] = conv.col],
                       rng |-> pick.rng,
                       log |-> Append(st.log, Entry("INFO", "converted", col.name, pick.val)),
                       possible |-> Append(st.possible, ptypes)]
                 ELSE [df |-> [st.df EXCEPT !.cols[i].dtype = "float64",
                                            !.cols[i].data = ParseFill(col.data, IntCell(0))],
                       rng |-> pick.rng,
                       log |-> Append(st.log, Entry("ERROR", "failed to convert", col.name, pick.val)),
                       possible |-> Append(st.possible, ptypes)]

\* one pass of "for col in df.columns" (column names are unique whenever the loop
\* runs, so a name stands for one position); st = [df, rng, log, possible]
ConvertColumn(st, i) ==
    LET col == st.df.cols[i]
        original_type == col.dtype
        ptypes == CandidateTypes(original_type)
    IN  IF ptypes = <<>>
        THEN [st EXCEPT !.log = Append(@, Entry("WARNING", "no valid conversion types", col.name, "")),
                        !.possible = Append(@, ptypes)]
        ELSE LET pick == choice(ptypes, st.rng)
                 conv == Convert(col, pick.val)
             IN  IF conv.ok
                 THEN [df |-> [st.df EXCEPT !.cols[i] = conv.col],
                       rng |-> pick.rng,
                       log |-> Append(st.log, Entry("INFO", "converted", col.name, pick.val)),
                       possible |-> Append(st.possible, ptypes)]
                 ELSE [df |-> st.df,
                       rng |-> pick.rng,
                       log |-> Append(st.log, Entry("ERROR", "failed to convert", col.name, pick.val)),
                       possible |-> Append(st.possible, ptypes)]

RECURSIVE ConvertLoop(_, _)
ConvertLoop(st, i) ==
    IF i > Len(st.df.cols) THEN st
    ELSE ConvertLoop(ConvertColumn(st, i), i + 1)

change_data_types(d, seed, g) ==
    ConvertLoop([df |-> d, rng |-> Reseed(seed, g), log |-> <<>>, possible |-> <<>>], 1)

\* ------------------------------------------------------ validate_input
\* str.lower() on the suffixes used here
Lower(ext) ==
    IF ext = ".CSV" THEN ".csv"
    ELSE IF ext = ".Txt" THEN ".txt"
    ELSE ext

\* mutant: the extension check of lines 136-137 is missing
validate_input_no_ext_check(input_file) ==
    IF input_file.kind = "missing" THEN "FileNotFoundError"
    ELSE IF input_file.kind = "unreadable" THEN "Exception"
    ELSE "ok"

\* lines 128-137: "ok" or the exception raised.  A path is [kind, ext]: kind says
\* what open(path, 'r') meets
validate_input(input_file) ==
    IF input_file.kind = "missing" THEN "FileNotFoundError"
    ELSE IF input_file.kind = "unreadable" THEN "Exception"
    ELSE IF Lower(input_file.ext) # ".csv" THEN "ValueError"
    ELSE "ok"

\* ------------------------------------------------ what read_csv can return
\* One column per inferred dtype, r rows each.  An object column holds at least one
\* cell that is no numeric literal (else read_csv would have inferred a number).
IntColumn(r) == [i \in 1 .. r |-> IntCell(i)]
FloatColumn(r) == [i \in 1 .. r |-> IF i % 2 = 1 THEN FloatCell(25) ELSE NaNCell]
BoolColumn(r) == [i \in 1 .. r |-> BoolCell(i % 2)]
TextColumn(r) == [i \in 1 .. r |-> IF i % 2 = 1 THEN WordCell ELSE TextOf(IntCell(7))]
TextInfColumn(r) ==
    [i \in 1 .. r |-> IF i = 1 THEN WordCell ELSE [k |-> "inf", s |-> TRUE, v |-> 0]]

ColumnKinds == {"int64", "float64", "bool", "text", "textinf"}

SampleColumn(kind, r, pos) ==
    [name |-> OrigName(pos),
     dtype |-> IF kind \in {"text", "textinf"} THEN "object" ELSE kind,
     data |-> IF kind = "int64" THEN IntColumn(r)
              ELSE IF kind = "float64" THEN FloatColumn(r)
              ELSE IF kind = "bool" THEN BoolColumn(r)
              ELSE IF kind = "text" THEN TextColumn(r)
              ELSE TextInfColumn(r),
     src |-> pos]

\* the tables pd.read_csv can hand to main: 1..MaxCols columns with the distinct
\* headers of the file, 1..MaxRows rows
Tables ==
    UNION {{[nrows |-> r, cols |-> [i \in 1 .. n |-> SampleColumn(kinds[i], r, i)]] :
              kinds \in [1 .. n -> ColumnKinds]} :
           <<n, r>> \in (1 .. MaxCols) \X (1 .. MaxRows)}

NoSeed == [given |-> FALSE, val |-> 0]

\* --seed: absent, or any int argparse accepts
Seeds == {NoSeed} \cup {[given |-> TRUE, val |-> v] : v \in {0, 3, -3, 9}}

InputFiles == [kind : {"missing", "unreadable", "file"}, ext : {".csv", ".CSV", ".txt", ".Txt", ""}]

\* generator states at the start of the process (seeded from the system at import)
InitialRngStates == {0, 2, 5}

\* -------------------------------------------------------------- main
\* df.to_csv(path, index=False): the header row and the cells, in column order
to_csv(d) == [header |-> Names(d), nrows |-> d.nrows,
              cells |-> [i \in DOMAIN d.cols |-> d.cols[i].data],
              src |-> [i \in DOMAIN d.cols |-> d.cols[i].src]]

\* lines 164-169: the three handlers of main; each logs at ERROR level and returns
Handler(exc, text) ==
    IF exc \in {"FileNotFoundError", "ValueError"}
    THEN Entry("ERROR", text, NoName, "")
    ELSE Entry("ERROR", "An unexpected error occurred", NoName, "")

Init ==
    /\ pc = "parse_args"
    /\ args \in [ok : BOOLEAN, input_file : InputFiles, seed : Seeds]
    /\ rng \in InitialRngStates
    /\ loaded = NoTable
    /\ df = NoTable
    /\ log = <<>>
    /\ steps = <<>>
    /\ output_file = <<>>
    /\ possible_types = <<>>
    /\ exit_status = 0

\* mutant: main ends the process with sys.exit(1)
ReturnNonzero == /\ pc' = "exited"
                 /\ exit_status' = 1

\* main falls off its end, caught exception or not: the interpreter exits with 0
Return == /\ pc' = "exited"
          /\ exit_status' = 0

Raise(exc, text) ==
    /\ log' = Append(log, Handler(exc, text))
    /\ Return

\* line 145: parser.parse_args() exits with status 2 on a malformed command line
parse_args ==
    /\ pc = "parse_args"
    /\ IF args.ok
       THEN /\ pc' = "validate"
            /\ exit_status' = exit_status
       ELSE /\ pc' = "exited"
            /\ exit_status' = 2
    /\ UNCHANGED <<args, rng, loaded, df, log, steps, output_file, possible_types>>

\* line 149
MainValidate ==
    /\ pc = "validate"
    /\ LET r == validate_input(args.input_file)
       IN  IF r = "ok"
           THEN /\ pc' = "read"
                /\ steps' = Append(steps, "validate_input")
                /\ UNCHANGED <<log, exit_status>>
           ELSE /\ Raise(r, IF r = "FileNotFoundError" THEN "Input file not found"
                            ELSE IF r = "ValueError" THEN "Input file must be a CSV file."
                            ELSE "Error accessing input file")
                /\ UNCHANGED steps
    /\ UNCHANGED <<args, rng, loaded, df, output_file, possible_types>>

\* lines 152-153: the parser either raises (its errors are ValueErrors) or returns a table
MainRead ==
    /\ pc = "read"
    /\ \/ /\ Raise("ValueError", "parse error")
          /\ UNCHANGED <<loaded, df, steps>>
       \/ \E t \in Tables :
             /\ loaded' = t
             /\ df' = t
             /\ log' = Append(log, Entry("INFO", "Successfully read input file", NoName, ""))
             /\ steps' = Append(steps, "read_csv")
             /\ pc' = "rename"
             /\ UNCHANGED exit_status
    /\ UNCHANGED <<args, rng, output_file, possible_types>>

\* line 156
MainRename ==
    /\ pc = "rename"
    /\ LET r == randomize_column_names(df, args.seed, rng)
       IN  /\ df' = r.df
           /\ rng' = r.rng
    /\ steps' = Append(steps, "randomize_column_names")
    /\ pc' = "reorder"
    /\ UNCHANGED <<args, loaded, log, output_file, possible_types, exit_status>>

\* line 157
MainReorder ==
    /\ pc = "reorder"
    /\ LET r == reorder_columns(df, args.seed, rng)
       IN  /\ df' = r.df
           /\ rng' = r.rng
    /\ steps' = Append(steps, "reorder_columns")
    /\ pc' = "types"
    /\ UNCHANGED <<args, loaded, log, output_file, possible_types, exit_status>>

\* line 158
MainChangeTypes ==
    /\ pc = "types"
    /\ LET r == change_data_types(df, args.seed, rng)
       IN  /\ df' = r.df
           /\ rng' = r.rng
           /\ log' = log \o r.log
           /\ possible_types' = r.possible
    /\ steps' = Append(steps, "change_data_types")
    /\ pc' = "write"
    /\ UNCHANGED <<args, loaded, output_file, exit_status>>

\* lines 161-162: the writer either creates the whole file or raises an OSError and
\* leaves none
MainWrite ==
    /\ pc = "write"
    /\ \/ /\ output_file' = <<to_csv(df)>>
          /\ log' = Append(log, Entry("INFO", "Successfully wrote output to file", NoName, ""))
          /\ steps' = Append(steps, "to_csv")
          /\ Return
       \/ /\ Raise("OSError", "cannot write")
          /\ UNCHANGED <<output_file, steps>>
    /\ UNCHANGED <<args, rng, loaded, df, possible_types>>

Next ==
    \/ parse_args
    \/ MainValidate
    \/ MainRead
    \/ MainRename
    \/ MainReorder
    \/ MainChangeTypes
    \/ MainWrite

Spec == Init /\ [][Next]_vars

\* ------------------------------------------- the stages in any order
\* The three stages are functions of a table; here they are applied to a loaded
\* table in every order and number up to MaxStages, and the result may be written
\* at any point.
MaxColsAny == 2

TablesAny == {t \in Tables : Len(t.cols) <= MaxColsAny}

StageCount == Len(SelectSeq(steps, LAMBDA x : x # "to_csv"))

InitAny ==
    /\ pc = "stages"
    /\ args \in [ok : {TRUE}, input_file : {[kind |-> "file", ext |-> ".csv"]},
                 seed : {NoSeed, [given |-> TRUE, val |-> 3]}]
    /\ rng = 2
    /\ loaded \in TablesAny
    /\ df = loaded
    /\ log = <<>>
    /\ steps = <<>>
    /\ output_file = <<>>
    /\ possible_types = <<>>
    /\ exit_status = 0

StageRename ==
    /\ pc = "stages"
    /\ StageCount < MaxStages
    /\ LET r == randomize_column_names(df, args.seed, rng)
       IN  /\ df' = r.df
           /\ rng' = r.rng
    /\ steps' = Append(steps, "randomize_column_names")
    /\ UNCHANGED <<pc, args, loaded, log, output_file, possible_types, exit_status>>

StageReorder ==
    /\ pc = "stages"
    /\ StageCount < MaxStages
    /\ LET r == reorder_columns(df, args.seed, rng)
       IN  /\ df' = r.df
           /\ rng' = r.rng
    /\ steps' = Append(steps, "reorder_columns")
    /\ UNCHANGED <<pc, args, loaded, log, output_file, possible_types, exit_status>>

StageChangeTypes ==
    /\ pc = "stages"
    /\ StageCount < MaxStages
    /\ LET r == change_data_types(df, args.seed, rng)
       IN  /\ df' = r.df
           /\ rng' = r.rng
           /\ log' = log \o r.log
           /\ possible_types' = r.possible
    /\ steps' = Append(steps, "change_data_types")
    /\ UNCHANGED <<pc, args, loaded, output_file, exit_status>>

StageWrite ==
    /\ pc = "stages"
    /\ output_file' = <<to_csv(df)>>
    /\ steps' = Append(steps, "to_csv")
    /\ pc' = "exited"
    /\ UNCHANGED <<args, rng, loaded, df, log, possible_types, exit_status>>

NextAny ==
    \/ StageRename
    \/ StageReorder
    \/ StageChangeTypes
    \/ StageWrite

SpecAnyOrder == InitAny /\ [][NextAny]_vars

\* ==================================================== properties
AllSteps == <<"validate_input", "read_csv", "randomize_column_names",
              "reorder_columns", "change_data_types", "to_csv">>

IsPrefix(a, b) == Len(a) <= Len(b) /\ \A i \in DOMAIN a : a[i] = b[i]

\* the records of main's three handlers
FatalErrors == SelectSeq(log, LAMBDA e : e.level = "ERROR" /\ e.col = NoName)

\* the per-column records of change_data_types
ColumnEntries(l) == SelectSeq(l, LAMBDA e : e.col # NoName)

FormatError == Entry("ERROR", "Input file must be a CSV file.", NoName, "")

\* the dtype read_csv inferred for the column
LoadedDtype(c) == loaded.cols[c.src].dtype

TagOf(dtype) == IF dtype = "int64" THEN "np.int64" ELSE "np.float64"

IsPermutation(a, b) ==
    /\ Len(a) = Len(b)
    /\ \E p \in [DOMAIN a -> DOMAIN a] :
          /\ \A i, j \in DOMAIN a : p[i] = p[j] => i = j
          /\ \A i \in DOMAIN a : b[i] = a[p[i]]

\* the three stages as main chains them, started with the generator in state g
PipelineFrom(t, seed, g) ==
    LET a == randomize_column_names(t, seed, g)
        b == reorder_columns(a.df, seed, a.rng)
    IN  change_data_types(b.df, seed, b.rng)

\* what any chain of conversions can make of one cell
RECURSIVE CellImages(_, _)
CellImages(S, k) ==
    IF k = 0 THEN S
    ELSE CellImages(S \cup {AsInt64(fillna(to_numeric(c), IntCell(0))) : c \in S}
                      \cup {AsFloat64(fillna(to_numeric(c), FloatCell(0))) : c \in S}
                      \cup {AsStr(c) : c \in S}, k - 1)

\* C1: with any supplied seed (0 and negative ones included) the run's column
\* labels, column order and chosen target types are the same whatever state the
\* generator had when the process started.
C1_SameSeedSameResult ==
    (args.seed.given /\ possible_types # <<>>) =>
        \A g \in RngStates :
            LET r == PipelineFrom(loaded, args.seed, g)
            IN  /\ Names(r.df) = Names(df)
                /\ [i \in DOMAIN r.df.cols |-> r.df.cols[i].src]
                     = [i \in DOMAIN df.cols |-> df.cols[i].src]
                /\ r.log = ColumnEntries(log)

\* C2: the candidate targets of a text (object) column are exactly integer and
\* floating-point: neither 'category' nor 'string'.
C2_TextCandidates ==
    \A i \in DOMAIN possible_types :
        LoadedDtype(df.cols[i]) = "object" =>
            Range(possible_types[i]) = {"np.int64", "np.float64"}

\* C3 as stated: the candidate targets of a numeric column are all four types but
\* its own, the other numeric type included.
C3_NumericKeepsOtherNumeric ==
    \A i \in DOMAIN possible_types :
        LoadedDtype(df.cols[i]) \in {"int64", "float64"} =>
            Range(possible_types[i]) = Range(AllTypes) \ {TagOf(LoadedDtype(df.cols[i]))}

\* C3 amended: the candidate targets of a numeric column (integer or
\* floating-point) are exactly 'string' and 'category': both numeric types are excluded.
C3_NumericCandidates ==
    \A i \in DOMAIN possible_types :
        LoadedDtype(df.cols[i]) \in {"int64", "float64"} =>
            possible_types[i] = <<"string", "category">>

C3_Witness ==
    /\ pc = "exited"
    /\ output_file # <<>>
    /\ \E i, j \in DOMAIN possible_types :
          /\ LoadedDtype(df.cols[i]) = "int64"
          /\ LoadedDtype(df.cols[j]) = "float64"
          /\ df.cols[i].dtype = "category"
          /\ df.cols[j].dtype = "object"

\* C4 as stated: every input path whose extension is not .csv ends in the format
\* error being logged and no output file.
C4_AnyNonCsvPath ==
    (pc = "exited" /\ args.ok /\ Lower(args.input_file.ext) # ".csv") =>
        /\ \E k \in DOMAIN log : log[k] = FormatError
        /\ output_file = <<>>

\* C4 amended: every input path that names a file open() can open and whose
\* extension is not .csv (case-insensitively) ends in the format error being the
\* one record logged, no stage run and no output file.
C4_ExistingNonCsvPath ==
    (pc = "exited" /\ args.ok /\ args.input_file.kind = "file"
        /\ Lower(args.input_file.ext) # ".csv") =>
        /\ log = <<FormatError>>
        /\ steps = <<>>
        /\ output_file = <<>>

C4_Witness ==
    /\ pc = "exited"
    /\ args.ok
    /\ args.input_file = [kind |-> "file", ext |-> ".Txt"]
    /\ log = <<FormatError>>

C6_ConversionFailureIsLocal ==
    \A k \in DOMAIN log :
        log[k].msg = "failed to convert" =>
            /\ log[k].level = "ERROR"
            /\ pc \in {"write", "exited"}
            /\ steps[Len(steps)] \in {"change_data_types", "to_csv"}
            /\ Len(ColumnEntries(log)) = Len(df.cols)
            /\ \A i \in DOMAIN df.cols : ColumnEntries(log)[i].col = df.cols[i].name
            /\ \A i \in DOMAIN df.cols :
                  df.cols[i].name = log[k].col =>
                      /\ df.cols[i].dtype = loaded.cols[df.cols[i].src].dtype
                      /\ df.cols[i].data = loaded.cols[df.cols[i].src].data
            /\ pc = "exited" => (output_file # <<>> \/ FatalErrors # <<>>)

C6_Witness ==
    /\ pc = "exited"
    /\ output_file # <<>>
    /\ \E k \in DOMAIN log :
          /\ log[k].msg = "failed to convert"
          /\ k < Len(log) - 1
          /\ log[k + 1].msg = "converted"

\* C7: after randomize_column_names on n columns of distinct names, the names are
\* exactly column_0 .. column_{n-1}, each once, and every column is at the position
\* it had, with its data and dtype.
C7_RenameIsBijection ==
    pc = "reorder" =>
        LET n == Len(loaded.cols)
        IN  /\ Len(df.cols) = n
            /\ Range(Names(df)) = {ColumnLabel(i) : i \in 0 .. (n - 1)}
            /\ \A i, j \in DOMAIN df.cols : df.cols[i].name = df.cols[j].name => i = j
            /\ \A i \in DOMAIN df.cols :
                  /\ df.cols[i].src = i
                  /\ df.cols[i].data = loaded.cols[i].data
                  /\ df.cols[i].dtype = loaded.cols[i].dtype
            /\ df.nrows = loaded.nrows

C7_Witness ==
    /\ pc = "reorder"
    /\ Len(df.cols) = 3
    /\ df.cols[1].name = ColumnLabel(1)
    /\ df.cols[2].name = ColumnLabel(2)

\* C8: reorder_columns returns the columns of its input, each once, with name,
\* dtype and data, in some order, and the same rows.
C8_ReorderIsPermutation ==
    [][pc = "reorder" => (IsPermutation(df.cols, df'.cols) /\ df'.nrows = df.nrows)]_vars

C8_Witness ==
    /\ pc = "types"
    /\ Len(df.cols) = 3
    /\ df.cols[1].src # 1
    /\ df.cols[2].src # 2
    /\ df.cols[3].src # 3
    /\ df.cols[1].dtype # df.cols[2].dtype

\* C9: whatever stages are applied, in whatever order, the table keeps the row
\* count it was loaded with, every column holds that many cells, each cell is a
\* conversion of the cell loaded in the same row, and the written file has those rows.
C9_RowCountInvariant ==
    /\ RowCount(df) = RowCount(loaded)
    /\ \A i \in DOMAIN df.cols :
          /\ Len(df.cols[i].data) = RowCount(loaded)
          /\ \A r \in DOMAIN df.cols[i].data :
                df.cols[i].data[r]
                    \in CellImages({loaded.cols[df.cols[i].src].data[r]}, MaxStages)
    /\ output_file # <<>> =>
          /\ output_file[1].nrows = RowCount(loaded)
          /\ \A i \in DOMAIN output_file[1].cells :
                Len(output_file[1].cells[i]) = RowCount(loaded)

C9_Witness ==
    /\ pc = "exited"
    /\ steps = <<"change_data_types", "reorder_columns", "randomize_column_names", "to_csv">>
    /\ RowCount(loaded) = 2
    /\ \E i \in DOMAIN df.cols :
          /\ df.cols[i].dtype = "int64"
          /\ loaded.cols[df.cols[i].src].dtype = "object"

\* C10: with a nonzero seed both shuffles apply the permutation s that the seeded
\* generator gives for n items: output position i holds the data of input column
\* s(i) under the label column_{s(s(i))}; a 2-column output has the header
\* column_0, column_1.
C10_CoupledShuffles ==
    (output_file # <<>> /\ args.seed.given /\ args.seed.val # 0) =>
        LET out == output_file[1]
            n == Len(loaded.cols)
            s == shuffle([i \in 1 .. n |-> i], SeedState(args.seed.val)).list
        IN  /\ Len(out.header) = n
            /\ \A i \in 1 .. n :
                  /\ out.src[i] = s[i]
                  /\ out.header[i] = ColumnLabel(s[s[i]] - 1)
            /\ n = 2 => out.header = <<ColumnLabel(0), ColumnLabel(1)>>

C10_Witness ==
    /\ output_file # <<>>
    /\ args.seed.given
    /\ args.seed.val # 0
    /\ Len(output_file[1].header) = 3
    /\ output_file[1].src = <<2, 3, 1>>
    /\ output_file[1].header = <<ColumnLabel(2), ColumnLabel(0), ColumnLabel(1)>>

====
